---- MODULE Spec2Model ----
(***************************************************************************)
(* Model of the usvfs Python wrapper (python-module/usvfs/usvfs_wrapper.py):*)
(* the Mapping collection, the class-level registry of instance names and  *)
(* the UserspaceVFS session methods, together with the state of the usvfs  *)
(* driver (the _usvfs_dll extension) that the methods call into.           *)
(*                                                                         *)
(* Every method is one atomic action: the wrapper is synchronous and       *)
(* single threaded.  The answers of the driver (success or failure of a    *)
(* call) are inputs of the actions.                                        *)
(***************************************************************************)
EXTENDS Integers, Sequences, FiniteSets, TLC

(***************************************************************************)
(* Bounds of the model.                                                    *)
(***************************************************************************)
\* largest number of rules linked into the Mapping object, in the
\* specification of the sessions (Spec) and in that of the mapping (SpecMap)
MaxRules == 1
MaxMapRules == 2
\* largest value assigned to the link_flags attribute of a link rule
MaxLinkFlags == 31

(***************************************************************************)
(* Program constants.                                                      *)
(***************************************************************************)
\* usvfs_wrapper.py:333  len(instance_name) > 64
MaxNameLen == 64

(***************************************************************************)
(* Instance names are strings, modelled as tuples of characters so that    *)
(* str.startswith and len are computed.                                    *)
(***************************************************************************)
RECURSIVE Repeat(_, _)
Repeat(c, n) == IF n = 0 THEN <<>> ELSE <<c>> \o Repeat(c, n - 1)

NameA == <<"a">>
NameAB == <<"a", "b">>
LongName == Repeat("z", MaxNameLen + 1)
NoName == <<>>

Names == {NameA, NameAB, LongName}

\* the names the driver can hold an instance for
InstanceNames == {n \in Names : Len(n) <= MaxNameLen}

\* str.startswith(prefix)
StartsWith(s, prefix) ==
    /\ Len(prefix) <= Len(s)
    /\ \A i \in 1..Len(prefix) : s[i] = prefix[i]

(***************************************************************************)
(* Link rules (_VirtualLink objects) as values.  Paths are absolute paths, *)
(* named by small integers.                                                *)
(***************************************************************************)
Rule(real, virtual, isdir, flags) ==
    [real_path |-> real, virtual_path |-> virtual,
     is_directory |-> isdir, link_flags |-> flags]

RuleSet == { Rule(1, 11, TRUE, 8), Rule(2, 12, TRUE, 10),
             Rule(3, 13, FALSE, 0), Rule(4, 14, FALSE, 4) }

(***************************************************************************)
(* Errors raised by the wrapper.  The wrapper raises USVFSException (or    *)
(* TypeError) with a message; kind names the message, and the link errors  *)
(* carry the values formatted into the message.                            *)
(***************************************************************************)
Err(kind) == [kind |-> kind, real_path |-> 0, virtual_path |-> 0, link_flags |-> 0]
NoErr == Err("none")
LinkErr(kind, r) ==
    [kind |-> kind, real_path |-> r.real_path, virtual_path |-> r.virtual_path,
     link_flags |-> r.link_flags]

\* no link rule object has been constructed yet
NoLink == [class |-> "none", real_path |-> <<>>, virtual_path |-> <<>>,
           is_directory |-> FALSE, link_flags |-> 0]

\* one call into the driver and the driver's answer (TRUE for the calls
\* that return nothing)
Call(name, arg, ret) == [call |-> name, arg |-> arg, ret |-> ret]

VARIABLES
    instance_names,   \* UserspaceVFS._instance_names (class attribute)
    sessions,         \* names of the live UserspaceVFS objects
    initialized,      \* self._initialized of each session
    everInitialized,  \* history: sessions whose initialize() has succeeded
    mapping,          \* the Mapping object: _dirs and _files
    linked,           \* history: the rules given to Mapping.link, in order
    current,          \* driver: name of the connected instance (NoName: none)
    drvRules,         \* driver: the link calls in effect in each instance, in order
    lastOp,           \* the last operation: name, session, argument, error, result
    trace,            \* the driver calls issued by the last operation
    link,             \* a link rule object (_VirtualLink, VirtualFile, VirtualDirectory)
    yielded           \* the rules yielded by the last operation, if it iterated a Mapping

vars == <<instance_names, sessions, initialized, everInitialized, mapping,
          linked, current, drvRules, lastOp, trace, link, yielded>>

Op(op, self, arg, err, ret) ==
    [op |-> op, self |-> self, arg |-> arg, err |-> err, ret |-> ret]

Init ==
    /\ instance_names = {}
    /\ sessions = {}
    /\ initialized = [n \in Names |-> FALSE]
    /\ everInitialized = {}
    /\ mapping = [dirs |-> <<>>, files |-> <<>>]
    /\ linked = <<>>
    /\ current = NoName
    /\ drvRules = [n \in InstanceNames |-> <<>>]
    /\ lastOp = Op("none", NoName, "none", NoErr, FALSE)
    /\ trace = <<>>
    /\ link = NoLink
    /\ yielded = <<>>

(***************************************************************************)
(* The driver (_usvfs_dll).  It keeps one connected instance; the rules    *)
(* belong to the instance that is connected when they are linked.          *)
(***************************************************************************)
\* CreateVFS(parameters): the connected instance afterwards
CreateVFS(cur, name, ok) == IF ok THEN name ELSE cur

\* ConnectVFS(parameters): the connected instance afterwards
ConnectVFS(cur, name, ok) == IF ok THEN name ELSE cur

\* DisconnectVFS(): the connected instance afterwards
DisconnectVFS == NoName

\* GetCurrentVFSName()
GetCurrentVFSName == current

\* ClearVirtualMappings() followed by the accepted link calls, while
\* instance cur is connected: the rule tables afterwards
RulesSet(cur, accepted) ==
    IF cur \in DOMAIN drvRules
    THEN [drvRules EXCEPT ![cur] = accepted]
    ELSE drvRules

\* the rules in effect in an instance after the driver has executed the
\* calls cs, when rules were in effect before: clear_rules removes all rules
\* and an accepted link call adds its rule at the end
RECURSIVE RulesAfter(_, _)
RulesAfter(rules, cs) ==
    IF cs = <<>> THEN rules
    ELSE LET c == Head(cs) IN
         RulesAfter(IF c.call = "clear_rules" THEN <<>>
                    ELSE IF c.call \in {"link_directory", "link_file"} /\ c.ret
                         THEN Append(rules, c)
                         ELSE rules,
                    Tail(cs))

\* the rules in effect in the instance cur
RulesOf(cur) == IF cur \in DOMAIN drvRules THEN drvRules[cur] ELSE <<>>

(***************************************************************************)
(* Mapping                                                                 *)
(***************************************************************************)
\* Mapping.__init__
MappingNew ==
    /\ mapping' = [dirs |-> <<>>, files |-> <<>>]
    /\ linked' = <<>>
    /\ lastOp' = Op("Mapping", NoName, "none", NoErr, FALSE)
    /\ trace' = <<>>
    /\ yielded' = <<>>
    /\ UNCHANGED <<link, instance_names, sessions, initialized, everInitialized,
                   current, drvRules>>

\* the rule is put in front of the rules linked before
MappingLinkedFront(m, virtual_link) ==
    IF virtual_link.is_directory
    THEN [m EXCEPT !.dirs = <<virtual_link>> \o @]
    ELSE [m EXCEPT !.files = <<virtual_link>> \o @]

\* Mapping.link: the Mapping afterwards
MappingLinked(m, virtual_link) ==
    IF virtual_link.is_directory
    THEN [m EXCEPT !.dirs = Append(@, virtual_link)]
    ELSE [m EXCEPT !.files = Append(@, virtual_link)]

MappingLink(virtual_link, max) ==
    /\ Len(linked) < max
    /\ mapping' = MappingLinked(mapping, virtual_link)
    /\ linked' = Append(linked, virtual_link)
    /\ lastOp' = Op("link", NoName, "none", NoErr, FALSE)
    /\ trace' = <<>>
    /\ yielded' = <<>>
    /\ UNCHANGED <<link, instance_names, sessions, initialized, everInitialized,
                   current, drvRules>>

\* Mapping.directories / Mapping.files
directories(m) == m.dirs
files(m) == m.files

\* the rules a consumer receives from the generator "for d in rs: yield d"
RECURSIVE Generate(_)
Generate(rs) ==
    IF rs = <<>> THEN <<>> ELSE <<Head(rs)>> \o Generate(Tail(rs))

\* a consumer iterates the generator that Mapping.directories() or
\* Mapping.files() returns to its end
Iterate(op, rs) ==
    /\ yielded' = Generate(rs)
    /\ lastOp' = Op(op, NoName, "none", NoErr, FALSE)
    /\ trace' = <<>>
    /\ UNCHANGED <<link, instance_names, sessions, initialized, everInitialized,
                   mapping, linked, current, drvRules>>

IterateDirectories == Iterate("directories", directories(mapping))

IterateFiles == Iterate("files", files(mapping))

(***************************************************************************)
(* UserspaceVFS                                                            *)
(***************************************************************************)
\* the uniqueness check looks only at the sessions that are still alive
NameTakenLive(instance_name) == instance_name \in sessions

\* UserspaceVFS.__init__: instance_name in self._instance_names
NameTaken(instance_name) == instance_name \in instance_names

\* UserspaceVFS.__init__
Construct(instance_name) ==
    /\ trace' = <<>>
    /\ yielded' = <<>>
    /\ UNCHANGED <<link, everInitialized, mapping, linked, current, drvRules>>
    /\ IF NameTaken(instance_name)
       THEN /\ lastOp' = Op("construct", instance_name, "none", Err("NameConflict"), FALSE)
            /\ UNCHANGED <<instance_names, sessions, initialized>>
       ELSE /\ instance_names' = instance_names \cup {instance_name}
            /\ IF Len(instance_name) > MaxNameLen
               THEN /\ lastOp' = Op("construct", instance_name, "none", Err("InvalidName"), FALSE)
                    /\ UNCHANGED <<sessions, initialized>>
               ELSE /\ lastOp' = Op("construct", instance_name, "none", NoErr, FALSE)
                    /\ sessions' = sessions \cup {instance_name}
                    /\ initialized' = [initialized EXCEPT ![instance_name] = FALSE]

\* UserspaceVFS.__del__ : the object is garbage collected
Del(self) ==
    /\ self \in sessions
    /\ sessions' = sessions \ {self}
    /\ initialized' = [initialized EXCEPT ![self] = FALSE]
    /\ IF initialized[self]
       THEN /\ current' = DisconnectVFS
            /\ trace' = <<Call("disconnect_session", NoName, TRUE)>>
       ELSE /\ UNCHANGED current
            /\ trace' = <<>>
    /\ lastOp' = Op("del", self, "none", NoErr, FALSE)
    /\ yielded' = <<>>
    /\ UNCHANGED <<link, instance_names, everInitialized, mapping, linked, drvRules>>

\* the name is compared for equality instead of by prefix
is_active_instance_eq(self) ==
    IF ~initialized[self]
    THEN [ret |-> FALSE, calls |-> <<>>]
    ELSE [ret |-> GetCurrentVFSName = self,
          calls |-> <<Call("current_session_name", NoName, TRUE)>>]

\* UserspaceVFS.is_active_instance: the result and the driver calls it makes
is_active_instance(self) ==
    IF ~initialized[self]
    THEN [ret |-> FALSE, calls |-> <<>>]
    ELSE [ret |-> StartsWith(GetCurrentVFSName, self),
          calls |-> <<Call("current_session_name", NoName, TRUE)>>]

\* the reconnect is attempted without asking whether the session is active
ensure_always_connects(self, connOk) ==
    [ok |-> connOk,
     calls |-> <<Call("connect_session", self, connOk)>>,
     cur |-> ConnectVFS(current, self, connOk)]

\* UserspaceVFS._ensure_active_instance: whether it returns normally, the
\* driver calls it makes and the driver's connected instance afterwards;
\* connOk is the driver's answer to ConnectVFS
ensure_active_instance(self, connOk) ==
    LET a == is_active_instance(self) IN
    IF a.ret
    THEN [ok |-> TRUE, calls |-> a.calls, cur |-> current]
    ELSE [ok |-> connOk,
          calls |-> Append(a.calls, Call("connect_session", self, connOk)),
          cur |-> ConnectVFS(current, self, connOk)]

\* the check of self._initialized is missing
InitializeNeverRejected(self) == FALSE

\* UserspaceVFS.initialize: if self._initialized
InitializeRejected(self) == initialized[self]

\* the flag is set whatever CreateVFS answers
InitializedRegardless(success) == TRUE

\* UserspaceVFS.initialize: self._initialized after CreateVFS has answered
InitializedAfterCreate(success) == success

\* UserspaceVFS.initialize; createOk is the driver's answer to CreateVFS
Initialize(self, createOk) ==
    /\ self \in sessions
    /\ yielded' = <<>>
    /\ UNCHANGED <<link, instance_names, sessions, mapping, linked, drvRules>>
    /\ IF InitializeRejected(self)
       THEN /\ lastOp' = Op("initialize", self, "none", Err("AlreadyInitialized"), FALSE)
            /\ trace' = <<>>
            /\ UNCHANGED <<initialized, everInitialized, current>>
       ELSE /\ trace' = <<Call("init_logging", NoName, TRUE),
                          Call("create_session", self, createOk)>>
            /\ current' = CreateVFS(current, self, createOk)
            /\ initialized' = [initialized EXCEPT ![self] = InitializedAfterCreate(createOk)]
            /\ everInitialized' =
                  IF InitializedAfterCreate(createOk)
                  THEN everInitialized \cup {self} ELSE everInitialized
            /\ lastOp' = Op("initialize", self, "none",
                            IF createOk THEN NoErr ELSE Err("InitializationFailed"),
                            FALSE)

\* UserspaceVFS.close: if not self._initialized
CloseRejected(self) == ~initialized[self]

\* the flag is not reset
InitializedKeptAfterClose == TRUE

\* UserspaceVFS.close: self._initialized after DisconnectVFS
InitializedAfterClose == FALSE

\* UserspaceVFS.close
Close(self) ==
    /\ self \in sessions
    /\ yielded' = <<>>
    /\ UNCHANGED <<link, instance_names, sessions, everInitialized, mapping, linked, drvRules>>
    /\ IF CloseRejected(self)
       THEN /\ lastOp' = Op("close", self, "none", Err("NotInitialized"), FALSE)
            /\ trace' = <<>>
            /\ UNCHANGED <<initialized, current>>
       ELSE /\ trace' = <<Call("disconnect_session", NoName, TRUE)>>
            /\ current' = DisconnectVFS
            /\ initialized' = [initialized EXCEPT ![self] = InitializedAfterClose]
            /\ lastOp' = Op("close", self, "none", NoErr, FALSE)

\* a call of UserspaceVFS.is_active_instance by the user
IsActiveInstance(self) ==
    /\ self \in sessions
    /\ lastOp' = Op("is_active_instance", self, "none", NoErr, is_active_instance(self).ret)
    /\ trace' = is_active_instance(self).calls
    /\ yielded' = <<>>
    /\ UNCHANGED <<link, instance_names, sessions, initialized, everInitialized,
                   mapping, linked, current, drvRules>>

\* the driver call that links rule r, and the driver's answer
LinkCall(r, ok) ==
    Call(IF r.is_directory THEN "link_directory" ELSE "link_file",
         <<r.real_path, r.virtual_path, r.link_flags>>, ok)

\* the link calls for the rules rs, of which the driver rejects the one at
\* failAt (0: none)
RECURSIVE LinkCalls(_, _)
LinkCalls(rs, failAt) ==
    IF rs = <<>> THEN <<>>
    ELSE <<LinkCall(Head(rs), failAt # 1)>> \o LinkCalls(Tail(rs), failAt - 1)

\* the file rules are linked before the directory rules
SetMappingOrderFilesFirst(m) == files(m) \o directories(m)

\* UserspaceVFS.set_mapping: the order in which the rules are linked
SetMappingOrder(m) == directories(m) \o files(m)

\* a rejected link call does not end the loops
IssuedAll(all, failAt) == all

\* UserspaceVFS.set_mapping: the rules a link call is issued for, when the
\* driver rejects the call at failAt (0: none); the raise ends the loops
IssuedRules(all, failAt) ==
    IF failAt = 0 THEN all ELSE SubSeq(all, 1, failAt)

\* UserspaceVFS.set_mapping: the error raised for the rejected rule
LinkFailed(r) == LinkErr("LinkFailed", r)

\* the existing rules are not cleared
SetMappingKeepsRules == <<>>

\* UserspaceVFS.set_mapping: dll.ClearVirtualMappings() before the loops
SetMappingClear == <<Call("clear_rules", NoName, TRUE)>>

\* the check of self._initialized is missing
SetMappingNeverRejected(self) == FALSE

\* UserspaceVFS.set_mapping: if not self._initialized
SetMappingRejected(self) == ~initialized[self]

\* UserspaceVFS.set_mapping.  isMapping: the argument is a Mapping object
\* (the Mapping of the model); connOk: the driver's answer to ConnectVFS;
\* failAt: the first link call the driver rejects (0: none)
SetMapping(self, isMapping, connOk, failAt) ==
    LET e == ensure_active_instance(self, connOk)
        all == SetMappingOrder(mapping)
        calls == LinkCalls(IssuedRules(all, failAt), failAt)
        arg == IF isMapping THEN "Mapping" ELSE "other"
    IN
    /\ self \in sessions
    /\ failAt \in 0..Len(all)
    /\ yielded' = <<>>
    /\ UNCHANGED <<link, instance_names, sessions, initialized, everInitialized,
                   mapping, linked>>
    /\ IF ~isMapping
       THEN /\ lastOp' = Op("set_mapping", self, arg, Err("InvalidArgument"), FALSE)
            /\ trace' = <<>>
            /\ UNCHANGED <<current, drvRules>>
       ELSE IF SetMappingRejected(self)
       THEN /\ lastOp' = Op("set_mapping", self, arg, Err("NotInitialized"), FALSE)
            /\ trace' = <<>>
            /\ UNCHANGED <<current, drvRules>>
       ELSE IF ~e.ok
       THEN /\ lastOp' = Op("set_mapping", self, arg, Err("ConnectionFailed"), FALSE)
            /\ trace' = e.calls
            /\ current' = e.cur
            /\ UNCHANGED drvRules
       ELSE /\ trace' = e.calls \o SetMappingClear \o calls
            /\ current' = e.cur
            /\ drvRules' = RulesSet(e.cur, RulesAfter(RulesOf(e.cur), SetMappingClear \o calls))
            /\ lastOp' = Op("set_mapping", self, arg,
                            IF failAt = 0 THEN NoErr ELSE LinkFailed(all[failAt]),
                            FALSE)

\* UserspaceVFS.clear_mapping: if not self._initialized
ClearMappingRejected(self) == ~initialized[self]

\* UserspaceVFS.clear_mapping
ClearMapping(self, connOk) ==
    LET e == ensure_active_instance(self, connOk) IN
    /\ self \in sessions
    /\ yielded' = <<>>
    /\ UNCHANGED <<link, instance_names, sessions, initialized, everInitialized,
                   mapping, linked>>
    /\ IF ClearMappingRejected(self)
       THEN /\ lastOp' = Op("clear_mapping", self, "none", Err("NotInitialized"), FALSE)
            /\ trace' = <<>>
            /\ UNCHANGED <<current, drvRules>>
       ELSE IF ~e.ok
       THEN /\ lastOp' = Op("clear_mapping", self, "none", Err("ConnectionFailed"), FALSE)
            /\ trace' = e.calls
            /\ current' = e.cur
            /\ UNCHANGED drvRules
       ELSE /\ trace' = Append(e.calls, Call("clear_rules", NoName, TRUE))
            /\ current' = e.cur
            /\ drvRules' = RulesSet(e.cur, <<>>)
            /\ lastOp' = Op("clear_mapping", self, "none", NoErr, FALSE)

\* a successful reconnect marks the session as initialized
ForwardMarksInitialized(op, self, connOk, cmd, cmdOk, failure) ==
    LET e == ensure_active_instance(self, connOk) IN
    /\ self \in sessions
    /\ yielded' = <<>>
    /\ UNCHANGED <<link, instance_names, sessions, everInitialized,
                   mapping, linked, drvRules>>
    /\ initialized' = [initialized EXCEPT ![self] = @ \/ e.ok]
    /\ current' = e.cur
    /\ IF ~e.ok
       THEN /\ lastOp' = Op(op, self, "none", Err("ConnectionFailed"), FALSE)
            /\ trace' = e.calls
       ELSE /\ trace' = Append(e.calls, Call(cmd, NoName, cmdOk))
            /\ lastOp' = Op(op, self, "none",
                            IF cmdOk THEN NoErr ELSE Err(failure), FALSE)

\* the methods that call _ensure_active_instance and then forward one
\* command to the driver: op is the method, cmd the driver call, cmdOk the
\* driver's answer to it and failure the error raised when it is FALSE
Forward(op, self, connOk, cmd, cmdOk, failure) ==
    LET e == ensure_active_instance(self, connOk) IN
    /\ self \in sessions
    /\ yielded' = <<>>
    /\ UNCHANGED <<link, instance_names, sessions, initialized, everInitialized,
                   mapping, linked, drvRules>>
    /\ current' = e.cur
    /\ IF ~e.ok
       THEN /\ lastOp' = Op(op, self, "none", Err("ConnectionFailed"), FALSE)
            /\ trace' = e.calls
       ELSE /\ trace' = Append(e.calls, Call(cmd, NoName, cmdOk))
            /\ lastOp' = Op(op, self, "none",
                            IF cmdOk THEN NoErr ELSE Err(failure), FALSE)

\* UserspaceVFS.blacklist_executable
BlacklistExecutable(self, connOk) ==
    Forward("blacklist_executable", self, connOk, "blacklist_executable", TRUE, "none")

\* UserspaceVFS.clear_blacklist
ClearBlacklist(self, connOk) ==
    Forward("clear_blacklist", self, connOk, "clear_blacklist", TRUE, "none")

\* UserspaceVFS.force_load_lib
ForceLoadLib(self, connOk) ==
    Forward("force_load_lib", self, connOk, "force_load_library", TRUE, "none")

\* UserspaceVFS.clear_force_loads
ClearForceLoads(self, connOk) ==
    Forward("clear_force_loads", self, connOk, "clear_force_loads", TRUE, "none")

\* UserspaceVFS.run_process; spawnOk is the driver's answer to
\* CreateProcessHooked
RunProcess(self, connOk, spawnOk) ==
    Forward("run_process", self, connOk, "spawn_hooked_process", spawnOk,
            "ProcessLaunchFailed")

\* UserspaceVFS.get_active_processes
GetActiveProcesses(self, connOk) ==
    Forward("get_active_processes", self, connOk, "list_active_process_ids", TRUE,
            "none")

(***************************************************************************)
(* Link rule objects: _VirtualLink, VirtualFile, VirtualDirectory.  The    *)
(* variable link is one such object.  Paths are tuples of components, the  *)
(* first component of an absolute path being "/".  The values given to the *)
(* property setters are Python values with their type.                     *)
(***************************************************************************)
\* the bits of the link flags in the driver's module (dll.LINKFLAG_...)
LINKFLAG_FAILIFEXISTS == 1
LINKFLAG_MONITORCHANGES == 2
LINKFLAG_CREATETARGET == 4
LINKFLAG_RECURSIVE == 8

\* Python's &, | and "& ~" on integers that are not negative
RECURSIVE BitAnd(_, _)
BitAnd(a, b) ==
    IF a = 0 \/ b = 0 THEN 0
    ELSE (a % 2) * (b % 2) + 2 * BitAnd(a \div 2, b \div 2)

RECURSIVE BitOr(_, _)
BitOr(a, b) ==
    IF a = 0 THEN b
    ELSE IF b = 0 THEN a
    ELSE (IF a % 2 = 1 \/ b % 2 = 1 THEN 1 ELSE 0) + 2 * BitOr(a \div 2, b \div 2)

RECURSIVE BitAndNot(_, _)
BitAndNot(a, b) ==
    IF a = 0 THEN 0
    ELSE (a % 2) * (1 - (b % 2)) + 2 * BitAndNot(a \div 2, b \div 2)

\* Python values: bool is a subclass of int, True is 1 and False is 0
PyBool(b) == [type |-> "bool", val |-> IF b THEN 1 ELSE 0]
PyInt(i) == [type |-> "int", val |-> i]

\* bool(value)
Truthy(value) == value.val # 0

\* b == value, for a bool b
PyEq(b, value) == (IF b THEN 1 ELSE 0) = value.val

\* repr(value), for the values given to the setters
Repr(value) ==
    CASE value = PyBool(TRUE) -> "True"
      [] value = PyBool(FALSE) -> "False"
      [] value = PyInt(0) -> "0"
      [] value = PyInt(1) -> "1"
      [] OTHER -> "?"

\* os.path.abspath
Cwd == <<"/", "cwd">>
AbsPath(path) == IF path # <<>> /\ path[1] = "/" THEN path ELSE Cwd \o path

\* the classes a class inherits from, itself included
Mro(class) ==
    CASE class = "_VirtualLink" -> {"_VirtualLink", "object"}
      [] class = "VirtualFile" -> {"VirtualFile", "_VirtualLink", "object"}
      [] class = "VirtualDirectory" -> {"VirtualDirectory", "_VirtualLink", "object"}
      [] OTHER -> {"object"}

\* isinstance(obj, cls), for an object of class class
IsInstance(class, cls) == cls \in Mro(class)

\* type(_VirtualLink): the class of the class object
TypeOfVirtualLinkClass == "type"

\* _VirtualLink.__init__
LinkInit(class, real_path, virtual_path, is_directory, link_flags) ==
    [class |-> class, real_path |-> AbsPath(real_path),
     virtual_path |-> AbsPath(virtual_path),
     is_directory |-> is_directory, link_flags |-> link_flags]

\* the getters of the four flag properties
FlagGet(link_flags, bit) == BitAnd(link_flags, bit) # 0

\* the unset branch keeps only the bit of the flag
FlagSetUnsetKeepsBit(link_flags, bit, value) ==
    IF PyEq(FlagGet(link_flags, bit), value) THEN link_flags
    ELSE IF Truthy(value) THEN BitOr(link_flags, bit)
    ELSE BitAnd(link_flags, bit)

\* the setters of the four flag properties, after the type check: the
\* link_flags afterwards
FlagSet(link_flags, bit, value) ==
    IF PyEq(FlagGet(link_flags, bit), value) THEN link_flags
    ELSE IF Truthy(value) THEN BitOr(link_flags, bit)
    ELSE BitAndNot(link_flags, bit)

\* the type check is missing
SetterAcceptsAnyType(value) == FALSE

\* the setters: if type(value) is not bool
SetterTypeError(value) == value.type # "bool"

linkFrame ==
    UNCHANGED <<instance_names, sessions, initialized, everInitialized, mapping,
                linked, current, drvRules, trace, yielded>>

\* _VirtualLink(real_path, virtual_path, is_directory, link_flags)
NewVirtualLink(real_path, virtual_path, is_directory, link_flags) ==
    /\ link' = LinkInit("_VirtualLink", real_path, virtual_path, is_directory, link_flags)
    /\ lastOp' = Op("_VirtualLink", NoName, "none", NoErr, FALSE)
    /\ linkFrame

\* VirtualFile(real_path, virtual_path)
NewVirtualFile(real_path, virtual_path) ==
    /\ link' = LinkInit("VirtualFile", real_path, virtual_path, FALSE, 0)
    /\ lastOp' = Op("VirtualFile", NoName, "none", NoErr, FALSE)
    /\ linkFrame

\* VirtualDirectory.__init__ does not set link_recursively
NewDirectoryFlagsUnset(link_flags) == link_flags

\* VirtualDirectory.__init__: self.link_recursively = True
NewDirectoryFlags(link_flags) == FlagSet(link_flags, LINKFLAG_RECURSIVE, PyBool(TRUE))

\* VirtualDirectory(real_path, virtual_path)
NewVirtualDirectory(real_path, virtual_path) ==
    LET base == LinkInit("VirtualDirectory", real_path, virtual_path, TRUE, 0) IN
    /\ link' = [base EXCEPT !.link_flags = NewDirectoryFlags(@)]
    /\ lastOp' = Op("VirtualDirectory", NoName, "none", NoErr, FALSE)
    /\ linkFrame

\* an assignment to the link_flags attribute
AssignLinkFlags(value) ==
    /\ link.class # "none"
    /\ link' = [link EXCEPT !.link_flags = value]
    /\ lastOp' = Op("link_flags", NoName, "none", NoErr, FALSE)
    /\ linkFrame

\* an assignment of value to the flag property named flag, of the classes
\* that have it
SetFlag(flag, bit, classes, value) ==
    /\ link.class \in classes
    /\ IF SetterTypeError(value)
       THEN /\ lastOp' = Op(flag, NoName, Repr(value), Err("TypeError"), FALSE)
            /\ UNCHANGED link
       ELSE /\ link' = [link EXCEPT !.link_flags = FlagSet(@, bit, value)]
            /\ lastOp' = Op(flag, NoName, Repr(value), NoErr, FALSE)
    /\ linkFrame

LinkClasses == {"_VirtualLink", "VirtualFile", "VirtualDirectory"}

\* _VirtualLink.link_fail_if_exists setter
SetLinkFailIfExists(value) ==
    SetFlag("link_fail_if_exists", LINKFLAG_FAILIFEXISTS, LinkClasses, value)

\* _VirtualLink.redirect_create setter
SetRedirectCreate(value) ==
    SetFlag("redirect_create", LINKFLAG_CREATETARGET, LinkClasses, value)

\* VirtualDirectory.link_recursively setter
SetLinkRecursively(value) ==
    SetFlag("link_recursively", LINKFLAG_RECURSIVE, {"VirtualDirectory"}, value)

\* VirtualDirectory.monitor_changes setter
SetMonitorChanges(value) ==
    SetFlag("monitor_changes", LINKFLAG_MONITORCHANGES, {"VirtualDirectory"}, value)

\* the setter rejects the assignment in the subclasses only
IsDirectoryRejectedInSubclass(class) == class # "_VirtualLink"

\* _VirtualLink.is_directory setter: if not isinstance(self, type(_VirtualLink))
IsDirectoryRejected(class) == ~IsInstance(class, TypeOfVirtualLinkClass)

\* _VirtualLink.is_directory setter
SetIsDirectory(value) ==
    /\ link.class # "none"
    /\ IF IsDirectoryRejected(link.class)
       THEN /\ lastOp' = Op("is_directory", NoName, Repr(value), Err("AttributeError"), FALSE)
            /\ UNCHANGED link
       ELSE IF value.type # "bool"
       THEN /\ lastOp' = Op("is_directory", NoName, Repr(value), Err("TypeError"), FALSE)
            /\ UNCHANGED link
       ELSE /\ link' = [link EXCEPT !.is_directory = Truthy(value)]
            /\ lastOp' = Op("is_directory", NoName, Repr(value), NoErr, FALSE)
    /\ linkFrame

(***************************************************************************)
(* SpecLink: one link rule object, constructed by any of the three         *)
(* classes, its link_flags assigned any value up to MaxLinkFlags and its   *)
(* properties assigned booleans and integers.                              *)
(***************************************************************************)
Paths == { <<"/", "r">>, <<"r">> }
SetterValues == {PyBool(TRUE), PyBool(FALSE), PyInt(0), PyInt(1)}

NextLink ==
    \/ \E r, v \in Paths, d \in BOOLEAN, f \in {0, MaxLinkFlags} :
          NewVirtualLink(r, v, d, f)
    \/ \E r, v \in Paths : NewVirtualFile(r, v)
    \/ \E r, v \in Paths : NewVirtualDirectory(r, v)
    \/ \E f \in 0..MaxLinkFlags : AssignLinkFlags(f)
    \/ \E x \in SetterValues : SetLinkFailIfExists(x)
    \/ \E x \in SetterValues : SetRedirectCreate(x)
    \/ \E x \in SetterValues : SetLinkRecursively(x)
    \/ \E x \in SetterValues : SetMonitorChanges(x)
    \/ \E x \in SetterValues : SetIsDirectory(x)

SpecLink == Init /\ [][NextLink]_vars

(***************************************************************************)
(* Spec: several sessions, whose names include a name and a proper prefix  *)
(* of it and a name that is too long, and a Mapping of at most MaxRules    *)
(* rules.                                                                  *)
(***************************************************************************)
SessionRules == { Rule(1, 11, TRUE, 8) }

Next ==
    \/ MappingNew
    \/ \E r \in SessionRules : MappingLink(r, MaxRules)
    \/ \E n \in Names : Construct(n)
    \/ \E n \in Names : Del(n)
    \/ \E n \in Names, ok \in BOOLEAN : Initialize(n, ok)
    \/ \E n \in Names : Close(n)
    \/ \E n \in Names : IsActiveInstance(n)
    \/ \E n \in Names, isMapping, ok \in BOOLEAN, k \in 0..MaxRules :
          SetMapping(n, isMapping, ok, k)
    \/ \E n \in Names, ok \in BOOLEAN : ClearMapping(n, ok)
    \/ \E n \in Names, ok \in BOOLEAN : BlacklistExecutable(n, ok)
    \/ \E n \in Names, ok \in BOOLEAN : ClearBlacklist(n, ok)
    \/ \E n \in Names, ok \in BOOLEAN : ForceLoadLib(n, ok)
    \/ \E n \in Names, ok \in BOOLEAN : ClearForceLoads(n, ok)
    \/ \E n \in Names, ok, spawnOk \in BOOLEAN : RunProcess(n, ok, spawnOk)
    \/ \E n \in Names, ok \in BOOLEAN : GetActiveProcesses(n, ok)

Spec == Init /\ [][Next]_vars

(***************************************************************************)
(* SpecMap: one session and a Mapping of at most MaxMapRules rules drawn   *)
(* from two directory rules and two file rules.                            *)
(***************************************************************************)
MapNames == {NameA}

NextMap ==
    \/ MappingNew
    \/ \E r \in RuleSet : MappingLink(r, MaxMapRules)
    \/ IterateDirectories
    \/ IterateFiles
    \/ \E n \in MapNames : Construct(n)
    \/ \E n \in MapNames : Del(n)
    \/ \E n \in MapNames, ok \in BOOLEAN : Initialize(n, ok)
    \/ \E n \in MapNames : Close(n)
    \/ \E n \in MapNames : IsActiveInstance(n)
    \/ \E n \in MapNames, isMapping, ok \in BOOLEAN, k \in 0..MaxMapRules :
          SetMapping(n, isMapping, ok, k)
    \/ \E n \in MapNames, ok \in BOOLEAN : ClearMapping(n, ok)
    \/ \E n \in MapNames, ok \in BOOLEAN : BlacklistExecutable(n, ok)
    \/ \E n \in MapNames, ok \in BOOLEAN : ClearBlacklist(n, ok)
    \/ \E n \in MapNames, ok \in BOOLEAN : ForceLoadLib(n, ok)
    \/ \E n \in MapNames, ok \in BOOLEAN : ClearForceLoads(n, ok)
    \/ \E n \in MapNames, ok, spawnOk \in BOOLEAN : RunProcess(n, ok, spawnOk)
    \/ \E n \in MapNames, ok \in BOOLEAN : GetActiveProcesses(n, ok)

SpecMap == Init /\ [][NextMap]_vars
(***************************************************************************)
(* Properties.  lastOp and trace describe the operation that led to the    *)
(* state; in an action formula the unprimed variables are the state the    *)
(* operation started in.                                                   *)
(***************************************************************************)
IsLink(c) == c.call \in {"link_directory", "link_file"}
IsDirectoryRule(r) == r.is_directory
IsFileRule(r) == ~r.is_directory

\* the link calls of a trace
Links(t) == SelectSeq(t, IsLink)

\* the number of calls of the driver function f in a trace
Calls(t, f) == Len(SelectSeq(t, LAMBDA c : c.call = f))

\* the rules given to Mapping.link: the directories in insertion order, then
\* the files in insertion order
LinkedDirsThenFiles == SelectSeq(linked, IsDirectoryRule) \o SelectSeq(linked, IsFileRule)

\* call c links rule r
LinksRule(c, r) ==
    /\ c.call = IF r.is_directory THEN "link_directory" ELSE "link_file"
    /\ c.arg = <<r.real_path, r.virtual_path, r.link_flags>>

\* C1: instance names are never released.  No operation removes a name from
\* the registry, the name of every session is in it, and a construction with
\* a name that is in the registry fails with NameConflict, whatever was done
\* with the first session (close and garbage collection included).
C1_NamesNeverReleased ==
    [][ /\ instance_names \subseteq instance_names'
        /\ sessions' \subseteq instance_names'
        /\ \A n \in instance_names :
              (lastOp'.op = "construct" /\ lastOp'.self = n)
                  => lastOp'.err.kind = "NameConflict" ]_vars

\* a construction fails with NameConflict for the name of a session that was
\* initialized and closed
C1_Witness ==
    /\ lastOp.op = "construct"
    /\ lastOp.err.kind = "NameConflict"
    /\ lastOp.self \in sessions
    /\ lastOp.self \in everInitialized
    /\ ~initialized[lastOp.self]

\* C2: at most one session is the active connection: is_active_instance() is
\* not true for two sessions with distinct names.
C2_AtMostOneActive ==
    \A s, t \in sessions :
        s # t => ~(is_active_instance(s).ret /\ is_active_instance(t).ret)

\* C3: set_mapping issues every link_directory call before every link_file
\* call, and within each kind one call per linked rule in the order in which
\* the rules were linked (up to the call the driver rejects, if any).
C3_DirectoriesBeforeFiles ==
    (lastOp.op = "set_mapping" /\ lastOp.err.kind \in {"none", "LinkFailed"}) =>
        LET ls == Links(trace) IN
        /\ \A i, j \in 1..Len(ls) :
              (ls[i].call = "link_directory" /\ ls[j].call = "link_file") => i < j
        /\ Len(ls) <= Len(linked)
        /\ \A i \in 1..Len(ls) : LinksRule(ls[i], LinkedDirsThenFiles[i])
        /\ lastOp.err.kind = "none" => Len(ls) = Len(linked)

\* a mapping in which a file rule was linked before a directory rule has
\* been applied
C3_Witness ==
    /\ lastOp.op = "set_mapping"
    /\ lastOp.err.kind = "none"
    /\ Len(linked) >= 2
    /\ IsFileRule(linked[1])
    /\ IsDirectoryRule(linked[Len(linked)])
    /\ Len(Links(trace)) = Len(linked)

\* C4: when the driver rejects a link call of set_mapping, the rejected call
\* is the last driver call of the operation, the error is LinkFailed with the
\* real path, virtual path and flags of the rule of that call, and the rules
\* accepted before it are the rules in effect in the connected instance.
C4_LinkFailedKeepsEarlierRules ==
    (/\ lastOp.op = "set_mapping"
     /\ \/ lastOp.err.kind = "LinkFailed"
        \/ \E i \in 1..Len(trace) : IsLink(trace[i]) /\ ~trace[i].ret) =>
        LET ls == Links(trace)
            k == Len(ls)
        IN
        /\ k >= 1
        /\ ~ls[k].ret
        /\ \A i \in 1..(k - 1) : ls[i].ret
        /\ trace[Len(trace)] = ls[k]
        /\ Calls(trace, "clear_rules") = 1
        /\ LinksRule(ls[k], LinkedDirsThenFiles[k])
        /\ lastOp.err = [kind |-> "LinkFailed",
                         real_path |-> LinkedDirsThenFiles[k].real_path,
                         virtual_path |-> LinkedDirsThenFiles[k].virtual_path,
                         link_flags |-> LinkedDirsThenFiles[k].link_flags]
        /\ drvRules[current] = SubSeq(ls, 1, k - 1)

\* the driver has rejected the second link call of a set_mapping
C4_Witness ==
    /\ lastOp.op = "set_mapping"
    /\ lastOp.err.kind = "LinkFailed"
    /\ Len(Links(trace)) = 2
    /\ Len(drvRules[current]) = 1

\* C5 as stated: once initialize() has succeeded on a session, every later
\* initialize() on it fails with AlreadyInitialized and issues no driver
\* call, whether or not the session was closed in between.
C5_InitializeOnlyOnce ==
    [][ \A s \in everInitialized :
           (lastOp'.op = "initialize" /\ lastOp'.self = s)
               => (lastOp'.err.kind = "AlreadyInitialized" /\ trace' = <<>>) ]_vars

\* C5 amended: initialize() is rejected exactly while the session is
\* initialized.  On a session that is initialized (initialize() has succeeded
\* and close() was not called since) initialize() fails with
\* AlreadyInitialized and issues no driver call; on a session that is not
\* initialized, a closed one included, it issues create_session again.  A
\* session is initialized after a successful initialize() and not after a
\* successful close().
C5_InitializeRejectedWhileInitialized ==
    [][ \A s \in sessions :
           /\ (lastOp'.op = "initialize" /\ lastOp'.self = s) =>
                 /\ IF initialized[s]
                    THEN lastOp'.err.kind = "AlreadyInitialized" /\ trace' = <<>>
                    ELSE /\ Calls(trace', "create_session") = 1
                         /\ lastOp'.err.kind # "AlreadyInitialized"
                 /\ lastOp'.err.kind = "none" => initialized'[s]
           /\ (lastOp'.op = "close" /\ lastOp'.self = s /\ lastOp'.err.kind = "none")
                 => ~initialized'[s] ]_vars

\* initialize() has been rejected as AlreadyInitialized
C5_Witness ==
    /\ lastOp.op = "initialize"
    /\ lastOp.err.kind = "AlreadyInitialized"
    /\ initialized[lastOp.self]
    /\ trace = <<>>

\* C6: when the driver's create_session reports failure, initialize() fails
\* with InitializationFailed and the session stays not initialized; on a
\* session that is not initialized, initialize() calls create_session (it is
\* not rejected as AlreadyInitialized).
C6_FailedInitializeStaysConstructed ==
    [][ \A s \in sessions :
           (lastOp'.op = "initialize" /\ lastOp'.self = s) =>
              /\ (\E i \in 1..Len(trace') :
                     trace'[i].call = "create_session" /\ ~trace'[i].ret)
                    => /\ lastOp'.err.kind = "InitializationFailed"
                       /\ ~initialized'[s]
                       /\ s \in everInitialized' <=> s \in everInitialized
              /\ ~initialized[s]
                    => /\ Calls(trace', "create_session") = 1
                       /\ lastOp'.err.kind # "AlreadyInitialized" ]_vars

\* initialize() has failed with InitializationFailed on a session that was
\* never initialized
C6_Witness ==
    /\ lastOp.op = "initialize"
    /\ lastOp.err.kind = "InitializationFailed"
    /\ ~initialized[lastOp.self]
    /\ lastOp.self \notin everInitialized
    /\ Calls(trace, "create_session") = 1

\* C7: is_active_instance() returns true exactly when the session is
\* initialized and the driver's current name starts with the session's
\* instance name; on a session that is not initialized it issues no driver
\* call.
C7_ActiveIffInitializedAndPrefix ==
    lastOp.op = "is_active_instance" =>
        /\ lastOp.ret <=> (initialized[lastOp.self] /\ StartsWith(current, lastOp.self))
        /\ ~initialized[lastOp.self] => trace = <<>>
        /\ initialized[lastOp.self] => Calls(trace, "current_session_name") = 1

\* is_active_instance() has returned true for a session whose name is a
\* proper prefix of the driver's current name
C7_Witness ==
    /\ lastOp.op = "is_active_instance"
    /\ lastOp.ret
    /\ current # lastOp.self

MutatingOps ==
    {"set_mapping", "clear_mapping", "blacklist_executable", "clear_blacklist",
     "force_load_lib", "clear_force_loads", "run_process", "get_active_processes"}

\* the driver calls of a trace other than current_session_name and
\* connect_session
Commands(t) ==
    SelectSeq(t, LAMBDA c : c.call \notin {"current_session_name", "connect_session"})

\* C8: a mutating operation issues connect_session at most once, and only
\* when the session is not the active instance; when that reconnect fails
\* the operation fails with ConnectionFailed and issues no further driver
\* call.
C8_ReconnectAtMostOnce ==
    [][ lastOp'.op \in MutatingOps =>
           LET s == lastOp'.self IN
           /\ Calls(trace', "connect_session") <= 1
           /\ Calls(trace', "connect_session") = 1
                 => ~(initialized[s] /\ StartsWith(current, s))
           /\ (\E i \in 1..Len(trace') :
                  trace'[i].call = "connect_session" /\ ~trace'[i].ret)
                 => /\ lastOp'.err.kind = "ConnectionFailed"
                    /\ trace'[Len(trace')].call = "connect_session"
                    /\ Commands(trace') = <<>> ]_vars

\* the reconnect of a mutating operation on an initialized session has failed
C8_Witness ==
    /\ lastOp.op \in MutatingOps
    /\ lastOp.err.kind = "ConnectionFailed"
    /\ initialized[lastOp.self]
    /\ Calls(trace, "connect_session") = 1

\* C9: close() on a session that is not initialized fails with
\* NotInitialized and issues no driver call; on an initialized session it
\* issues exactly one disconnect_session and leaves the session not
\* initialized, so that a close() repeated at once fails with NotInitialized.
C9_CloseRequiresInitialized ==
    [][ \A s \in sessions :
           (lastOp'.op = "close" /\ lastOp'.self = s) =>
              /\ IF initialized[s]
                 THEN /\ lastOp'.err.kind = "none"
                      /\ trace' = <<Call("disconnect_session", NoName, TRUE)>>
                 ELSE /\ lastOp'.err.kind = "NotInitialized"
                      /\ trace' = <<>>
              /\ ~initialized'[s]
              /\ (lastOp.op = "close" /\ lastOp.self = s /\ lastOp.err.kind = "none")
                    => lastOp'.err.kind = "NotInitialized" ]_vars

\* close() has failed with NotInitialized on a session that was initialized
\* before
C9_Witness ==
    /\ lastOp.op = "close"
    /\ lastOp.err.kind = "NotInitialized"
    /\ lastOp.self \in everInitialized
    /\ trace = <<>>

\* C10: set_mapping with an argument that is not a Mapping fails with
\* InvalidArgument, and set_mapping or clear_mapping on a session that is not
\* initialized fails with NotInitialized; in these cases no driver call is
\* issued.
C10_PreconditionsBeforeDriver ==
    [][ \A s \in sessions :
           /\ (lastOp'.op = "set_mapping" /\ lastOp'.self = s /\ lastOp'.arg # "Mapping")
                 => (lastOp'.err.kind = "InvalidArgument" /\ trace' = <<>>)
           /\ (/\ lastOp'.op = "set_mapping" /\ lastOp'.self = s
               /\ lastOp'.arg = "Mapping" /\ ~initialized[s])
                 => (lastOp'.err.kind = "NotInitialized" /\ trace' = <<>>)
           /\ (lastOp'.op = "clear_mapping" /\ lastOp'.self = s /\ ~initialized[s])
                 => (lastOp'.err.kind = "NotInitialized" /\ trace' = <<>>) ]_vars

\* set_mapping has failed with NotInitialized on a closed session
C10_Witness ==
    /\ lastOp.op = "set_mapping"
    /\ lastOp.err.kind = "NotInitialized"
    /\ lastOp.self \in everInitialized
    /\ trace = <<>>

\* C11: construction validates the length of the name.  A construction with
\* a name longer than 64 characters fails with InvalidName, a construction
\* with a name of at most 64 characters that is not reserved succeeds, and
\* the name of every session has at most 64 characters.
C11_NameLengthValidated ==
    [][ lastOp'.op = "construct" =>
           LET n == lastOp'.self IN
           /\ Len(n) > MaxNameLen => lastOp'.err.kind = "InvalidName"
           /\ (Len(n) <= MaxNameLen /\ n \notin instance_names)
                 => (lastOp'.err.kind = "none" /\ n \in sessions')
           /\ \A s \in sessions' : Len(s) <= MaxNameLen ]_vars

\* C19: a failed construction leaves the registry unchanged, so that the
\* registry holds only the names of the sessions whose construction
\* succeeded, and a construction with a name longer than 64 characters never
\* fails with NameConflict.
C19_FailedConstructionKeepsRegistry ==
    [][ lastOp'.op = "construct" =>
           /\ lastOp'.err.kind # "none" => instance_names' = instance_names
           /\ \A n \in instance_names' : Len(n) <= MaxNameLen
           /\ Len(lastOp'.self) > MaxNameLen => lastOp'.err.kind # "NameConflict" ]_vars

ForwardingOps ==
    {"blacklist_executable", "clear_blacklist", "force_load_lib",
     "clear_force_loads", "run_process", "get_active_processes"}

\* C20: blacklist_executable, clear_blacklist, force_load_lib,
\* clear_force_loads, run_process and get_active_processes on a session that
\* is not initialized issue neither connect_session nor the forwarded
\* command.
C20_NotInitializedNoDriverCommand ==
    [][ (lastOp'.op \in ForwardingOps /\ ~initialized[lastOp'.self]) =>
           /\ Calls(trace', "connect_session") = 0
           /\ Commands(trace') = <<>> ]_vars

\* C16: only initialize() and close() change the initialized flag of a
\* session and only a construction changes the registry of names.  The
\* mutating operations and is_active_instance leave both unchanged, whether
\* they succeed or fail, also when they reconnect.
C16_FlagAndRegistryFrame ==
    [][ /\ lastOp'.op \in MutatingOps \cup {"is_active_instance"}
              => (initialized' = initialized /\ instance_names' = instance_names)
        /\ \A s \in sessions \cap sessions' :
              initialized'[s] # initialized[s] => lastOp'.op \in {"initialize", "close"}
        /\ instance_names' # instance_names => lastOp'.op = "construct" ]_vars

\* an operation on a session that is not initialized has reconnected and
\* forwarded its command
C16_Witness ==
    /\ lastOp.op \in MutatingOps
    /\ lastOp.err.kind = "none"
    /\ \E i \in 1..Len(trace) : trace[i].call = "connect_session" /\ trace[i].ret
    /\ ~initialized[lastOp.self]

\* C13: directories() yields exactly the linked rules that are directories
\* and files() exactly the linked rules that are files, each in the order
\* in which they were linked and with duplicates kept; an iteration leaves
\* the Mapping unchanged, so that an iteration repeated at once yields the
\* same sequence.
C13_MappingPartitions ==
    [][ /\ directories(mapping') = SelectSeq(linked', IsDirectoryRule)
        /\ files(mapping') = SelectSeq(linked', IsFileRule)
        /\ lastOp'.op = "directories" =>
              /\ yielded' = SelectSeq(linked, IsDirectoryRule)
              /\ mapping' = mapping
              /\ lastOp.op = "directories" => yielded' = yielded
        /\ lastOp'.op = "files" =>
              /\ yielded' = SelectSeq(linked, IsFileRule)
              /\ mapping' = mapping
              /\ lastOp.op = "files" => yielded' = yielded ]_vars

\* directories() has yielded two distinct directory rules of a Mapping
C13_Witness ==
    /\ lastOp.op = "directories"
    /\ Len(yielded) = 2
    /\ yielded[1] # yielded[2]
    /\ yielded = linked

\* C15: a successful set_mapping issues clear_rules exactly once and before
\* every link call, and the rules in effect in the connected instance
\* afterwards are the directory rules of the Mapping followed by its file
\* rules, whatever rules were in effect before: a set_mapping repeated at
\* once leaves the same rules, and set_mapping with an empty Mapping leaves
\* no rule, as a successful clear_mapping does.
C15_SetMappingReplacesRules ==
    [][ /\ (lastOp'.op = "set_mapping" /\ lastOp'.err.kind = "none") =>
              /\ Calls(trace', "clear_rules") = 1
              /\ Head(Commands(trace')).call = "clear_rules"
              /\ drvRules'[current'] = LinkCalls(LinkedDirsThenFiles, 0)
              /\ linked = <<>> => drvRules'[current'] = <<>>
              /\ (lastOp.op = "set_mapping" /\ lastOp.err.kind = "none")
                    => drvRules'[current'] = drvRules[current]
        /\ (lastOp'.op = "clear_mapping" /\ lastOp'.err.kind = "none")
              => drvRules'[current'] = <<>> ]_vars

\* a Mapping of a file rule and a directory rule linked after it has been
\* applied: the rule of the directory is the first in effect
C15_Witness ==
    /\ lastOp.op = "set_mapping"
    /\ lastOp.err.kind = "none"
    /\ Len(linked) = 2
    /\ IsFileRule(linked[1])
    /\ IsDirectoryRule(linked[2])
    /\ drvRules[current] = LinkCalls(<<linked[2], linked[1]>>, 0)

\* C21: close() disconnects only the connection of the closing session.
\* When two sessions are initialized and the driver is connected to the
\* instance of one of them, close() on the other leaves the driver connected
\* to that instance, and is_active_instance() of its session is still true.
C21_CloseKeepsOtherConnection ==
    [][ \A a, b \in sessions :
           (/\ a # b
            /\ initialized[a] /\ initialized[b]
            /\ current = b
            /\ lastOp'.op = "close" /\ lastOp'.self = a)
               => /\ current' = b
                  /\ initialized'[b] /\ StartsWith(current', b) ]_vars

\* C22: a command reaches the instance of the session that issues it.
\* Whenever a mutating operation of a session issues a driver command
\* (clear_rules, a link call, a blacklist, force-load, spawn or process-list
\* command), the driver is connected to the instance of that session's name.
C22_CommandsReachOwnInstance ==
    [][ (lastOp'.op \in MutatingOps /\ Commands(trace') # <<>>)
            => current' = lastOp'.self ]_vars

\* bit k of a number that is not negative
BitOf(n, k) == (n \div (2 ^ k)) % 2

\* the bit positions of the link flags of the model
BitPositions == 0..5

\* the flag properties and the bit of each
FlagProperties ==
    {"link_fail_if_exists", "redirect_create", "link_recursively", "monitor_changes"}

BitOfProperty(flag) ==
    CASE flag = "link_fail_if_exists" -> LINKFLAG_FAILIFEXISTS
      [] flag = "redirect_create" -> LINKFLAG_CREATETARGET
      [] flag = "link_recursively" -> LINKFLAG_RECURSIVE
      [] flag = "monitor_changes" -> LINKFLAG_MONITORCHANGES

\* C12: for each of the four flags f and each boolean v, from any bitset:
\* after set(f, v), get(f) = v, the other bits of the bitset are unchanged,
\* and the bitset is unchanged when get(f) = v held before.
C12_FlagSetGetRoundTrip ==
    [][ (lastOp'.op \in FlagProperties /\ lastOp'.arg \in {"True", "False"}) =>
           LET bit == BitOfProperty(lastOp'.op)
               v == lastOp'.arg = "True"
           IN
           /\ lastOp'.err.kind = "none"
           /\ FlagGet(link'.link_flags, bit) = v
           /\ \A k \in BitPositions :
                 2 ^ k # bit => BitOf(link'.link_flags, k) = BitOf(link.link_flags, k)
           /\ FlagGet(link.link_flags, bit) = v => link'.link_flags = link.link_flags ]_vars

\* the recursive flag of a directory rule has been unset while the bits of
\* all other flags, and a bit that is no flag, are set
C12_Witness ==
    /\ lastOp.op = "link_recursively"
    /\ lastOp.err.kind = "none"
    /\ lastOp.arg = "False"
    /\ link.link_flags = 23

\* C14: is_directory is fixed at construction: every assignment to
\* is_directory fails with an error, for the base class and both subclasses,
\* and only a construction changes the value that is read.
C14_IsDirectoryFixed ==
    [][ /\ lastOp'.op = "is_directory"
              => (lastOp'.err.kind # "none" /\ link'.is_directory = link.is_directory)
        /\ link'.is_directory # link.is_directory
              => lastOp'.op \in {"_VirtualLink", "VirtualFile", "VirtualDirectory"} ]_vars

\* the assignment of the other boolean to is_directory of a rule of the base
\* class has failed
C14_Witness ==
    /\ lastOp.op = "is_directory"
    /\ lastOp.err.kind = "AttributeError"
    /\ link.class = "_VirtualLink"
    /\ lastOp.arg = IF link.is_directory THEN "False" ELSE "True"

\* C17: a flag setter given a value that is not a bool (the integers 0 and
\* 1) fails with a type error and leaves the bitset unchanged.
C17_SetterRequiresBool ==
    [][ (lastOp'.op \in FlagProperties /\ lastOp'.arg \notin {"True", "False"}) =>
           /\ lastOp'.err.kind = "TypeError"
           /\ link' = link ]_vars

\* a flag setter has been given the integer 1 while its flag was not set
C17_Witness ==
    /\ lastOp.op \in FlagProperties
    /\ lastOp.arg = "1"
    /\ lastOp.err.kind = "TypeError"
    /\ ~FlagGet(link.link_flags, BitOfProperty(lastOp.op))

\* C18: a new VirtualDirectory has is_directory = true and exactly the
\* recursive flag set; a new VirtualFile has is_directory = false and no bit
\* set.
C18_ConstructorDefaults ==
    /\ lastOp.op = "VirtualDirectory" =>
          /\ link.is_directory
          /\ FlagGet(link.link_flags, LINKFLAG_RECURSIVE)
          /\ ~FlagGet(link.link_flags, LINKFLAG_MONITORCHANGES)
          /\ ~FlagGet(link.link_flags, LINKFLAG_FAILIFEXISTS)
          /\ ~FlagGet(link.link_flags, LINKFLAG_CREATETARGET)
          /\ \A k \in BitPositions : BitOf(link.link_flags, k) = IF k = 3 THEN 1 ELSE 0
    /\ lastOp.op = "VirtualFile" =>
          /\ ~link.is_directory
          /\ link.link_flags = 0

\* a VirtualDirectory has been constructed from relative paths
C18_Witness ==
    /\ lastOp.op = "VirtualDirectory"
    /\ link.class = "VirtualDirectory"
    /\ link.real_path = Cwd \o <<"r">>
====
